---- MODULE Spec2Model ----
(***************************************************************************)
(* The recursive-descent parser of src/src/parser/mod.rs, the error        *)
(* taxonomy of src/src/errors.rs and the reporting boundary of             *)
(* src/src/main.rs.                                                        *)
(*                                                                         *)
(* The parser runs as a machine with an explicit call stack: one frame     *)
(* per running production, holding its position and its locals.  A step is *)
(* the code of one production between two calls of other productions; the  *)
(* cursor primitives (peek .. consume) are operators the steps apply.      *)
(* When parse() has returned, the driver's steps of main.rs follow         *)
(* (interpret, handle_errors).                                             *)
(***************************************************************************)
EXTENDS Integers, Sequences, FiniteSets, TLC

VARIABLES
    tokens,      \* Parser::tokens, the token stream (read-only)
    current,     \* Parser::current
    stack,       \* the call stack of the productions, innermost last
    ret,         \* the value the production that just returned handed back
    statements,  \* the local Vec<Node> of parse_statements
    pc,          \* position of the driver: "parse", "returned", "handle_errors", "done"
    result,      \* what parse() returned (NoResult while it runs)
    reportable,  \* the Box<dyn ErrorList> handed to handle_errors
    handled,     \* the values the handler of extract_type! was invoked with
    trace,       \* history: the calls of cursor primitives made by the last step
    before,      \* history: the cursor before the last step
    raised,      \* history: the first error raised, with the cursor at that time
    starts       \* history: the cursor at the start of each statement parsed

vars ==
    <<tokens, current, stack, ret, statements, pc, result, reportable, handled,
      trace, before, raised, starts>>

----------------------------------------------------------------------------
(* Token kinds (lexer::token::TokenType) and tokens.                       *)

LiteralKinds == {"Integer", "Float", "Boolean"}

MarkerKinds ==
    {"Plus", "Minus", "Multiply", "Divide", "Modulo", "Equal", "NotEqual",
     "LesserThan", "GreaterThan", "LesserThanEqual", "GreaterThanEqual",
     "LeftParen", "RightParen", "Comma", "Not", "And", "Or", "Return",
     "EndOfLine", "EndOfFile"}

\* A marker token type, e.g. TokenType::Plus.
TT(kind) == [kind |-> kind]

\* A payload-carrying token type, e.g. TokenType::Integer(1).
TTV(kind, value) == [kind |-> kind, value |-> value]

\* The derived PartialEq of TokenType: same variant and same payload.
TokenTypeEq(a, b) ==
    /\ a.kind = b.kind
    /\ DOMAIN a = DOMAIN b
    /\ ("value" \in DOMAIN a => a.value = b.value)

\* Option<T>
None == [some |-> FALSE]
Some(v) == [some |-> TRUE, v |-> v]

----------------------------------------------------------------------------
(* Errors: create_error!(TokenMismatch, {expected, found}) and the boxed   *)
(* string errors made by error!("...") through Box<dyn Error>::from.       *)

TokenMismatch(err, expected, found) ==
    [type |-> "TokenMismatch", err |-> err, expected |-> expected, found |-> found]

\* error!(<&str or String>): a Box<dyn Error> holding only the text.
StringError(err) == [type |-> "String", err |-> err]

\* format!("Expected expression, received '{:?}'", token): the text and the
\* token it renders.
ExpectedExpression(token) ==
    [type |-> "String", err |-> "Expected expression, received", received |-> token]

\* utils::unwrap_result: Some(v) is Ok(v), None is an error value.
unwrap_result(opt) ==
    IF opt.some THEN [ok |-> TRUE, val |-> opt.v]
    ELSE [ok |-> FALSE, err |-> StringError("unwrap_result: None")]

----------------------------------------------------------------------------
(* Syntax tree (parser::ast).                                              *)

Literal(kind, value) == [node |-> "Literal", kind |-> kind, value |-> value]
Arithmetic(op) == [class |-> "Arithmetic", op |-> op]
Logical(op) == [class |-> "Logical", op |-> op]
BinaryExpression(left, op, right) ==
    [node |-> "BinaryExpression", left |-> left, op |-> op, right |-> right]
LogicalExpression(left, op, right) ==
    [node |-> "LogicalExpression", left |-> left, op |-> op, right |-> right]
UnaryExpression(op, right) ==
    [node |-> "UnaryExpression", op |-> op, right |-> right]
CallExpression(callee, arguments) ==
    [node |-> "CallExpression", callee |-> callee, arguments |-> arguments]
Assignment(variable, value) ==
    [node |-> "Assignment", variable |-> variable, value |-> value]
Variable(name) == [node |-> "Variable", name |-> name]
EmptyStatement == [node |-> "EmptyStatement"]
ReturnStatement(value) == [node |-> "ReturnStatement", value |-> value]
ExpressionStatement(expression) ==
    [node |-> "ExpressionStatement", expression |-> expression]
Program(stmts) == [node |-> "Program", statements |-> stmts]

\* ast::op_token_to_arithmetic: entries for the arithmetic tokens only.
op_token_to_arithmetic(token) ==
    IF token.token_type.kind \in {"Plus", "Minus", "Multiply", "Divide", "Modulo"}
    THEN Some(token.token_type.kind)
    ELSE None

\* ast::op_token_to_logical: entries for the logical and comparison tokens.
op_token_to_logical(token) ==
    IF token.token_type.kind \in
         {"And", "Or", "Not", "LesserThan", "GreaterThan",
          "LesserThanEqual", "GreaterThanEqual"}
    THEN Some(token.token_type.kind)
    ELSE None

----------------------------------------------------------------------------
(* Results and the history of primitive calls.                             *)

\* The value of a cursor primitive that answers a ParserResult, with the
\* parser state p = [current, trace] it leaves.
Ok(val, p) == [ok |-> TRUE, val |-> val, p |-> p]
Err(e, p) == [ok |-> FALSE, err |-> e, p |-> p]

\* One history entry: primitive `op` was called on token kind `arg` ("" when
\* it takes none) with the cursor at `from` and left it at `to`; `ok` is its
\* outcome (TRUE: matched / advanced / returned Ok / index in range).
Entry(op, arg, from, to, ok) ==
    [op |-> op, arg |-> arg, from |-> from, to |-> to, ok |-> ok]

\* The parser state q, with the call that led from p to q recorded.
Logged(p, q, op, arg, ok) ==
    [current |-> q.current,
     trace |-> Append(q.trace, Entry(op, arg, p.current, q.current, ok))]

----------------------------------------------------------------------------
(* Cursor primitives (Parser::peek .. Parser::consume).  The cursor is an  *)
(* index from 0; TLA+ sequences are indexed from 1.                        *)

\* self.tokens.get(self.current)
peek(p) ==
    IF p.current < Len(tokens) THEN Some(tokens[p.current + 1]) ELSE None

\* self.tokens.get(self.current - 1).  With current = 0 the subtraction
\* underflows: a debug build panics there, a release build wraps to
\* usize::MAX and get() answers None.  The history records the call (ok is
\* FALSE exactly for the underflow) and the model goes on as the release
\* build does.
previous(p) ==
    [ret |-> IF p.current >= 1 /\ p.current - 1 < Len(tokens)
             THEN Some(tokens[p.current])
             ELSE None,
     p |-> Logged(p, p, "previous", "", p.current >= 1)]

\* Mutant of is_at_end: a cursor past the stream bounds is not the end of
\* input.
is_at_end_within_bounds(p) ==
    LET r == unwrap_result(peek(p))
    IN  IF r.ok THEN TokenTypeEq(r.val.token_type, TT("EndOfFile")) ELSE FALSE

is_at_end(p) ==
    LET r == unwrap_result(peek(p))
    IN  IF r.ok THEN TokenTypeEq(r.val.token_type, TT("EndOfFile")) ELSE TRUE

advance(p) ==
    LET q == IF ~is_at_end(p) THEN [p EXCEPT !.current = p.current + 1] ELSE p
        r == previous(q)
    IN  [ret |-> r.ret, p |-> Logged(p, r.p, "advance", "", ~is_at_end(p))]

check(p, token) ==
    IF is_at_end(p) THEN FALSE
    ELSE LET pk == peek(p)
         IN  IF pk.some THEN TokenTypeEq(pk.v.token_type, token) ELSE FALSE

\* Mutant of matches: the cursor advances whether or not the token matches.
matches_always_advances(p, token) ==
    [b |-> check(p, token),
     p |-> Logged(p, advance(p).p, "matches", token.kind, check(p, token))]

matches(p, token) ==
    IF check(p, token)
    THEN [b |-> TRUE, p |-> Logged(p, advance(p).p, "matches", token.kind, TRUE)]
    ELSE [b |-> FALSE, p |-> Logged(p, p, "matches", token.kind, FALSE)]

RECURSIVE match_one_of_from(_, _, _)
match_one_of_from(p, toks, i) ==
    IF i > Len(toks) THEN [b |-> FALSE, p |-> p]
    ELSE LET m == matches(p, toks[i])
         IN  IF m.b THEN m ELSE match_one_of_from(m.p, toks, i + 1)

match_one_of(p, toks) ==
    LET m == match_one_of_from(p, toks, 1)
    IN  [b |-> m.b, p |-> Logged(p, m.p, "match_one_of", "", m.b)]

\* Mutant of consume: on a mismatch the cursor advances before `found` is
\* read.
consume_advances_on_mismatch(p, token) ==
    IF check(p, token)
    THEN LET a == advance(p)
             u == unwrap_result(a.ret)
         IN  IF u.ok THEN Ok(u.val, Logged(p, a.p, "consume", token.kind, TRUE))
             ELSE Err(u.err, Logged(p, a.p, "consume", token.kind, FALSE))
    ELSE LET a == advance(p)
             found == unwrap_result(peek(a.p))
             q == Logged(p, a.p, "consume", token.kind, FALSE)
         IN  IF ~found.ok THEN Err(found.err, q)
             ELSE Err(TokenMismatch("Expected token of type {expected}, found {found}",
                                    token, found.val.token_type), q)

consume(p, token) ==
    IF check(p, token)
    THEN LET a == advance(p)
             u == unwrap_result(a.ret)
         IN  IF u.ok THEN Ok(u.val, Logged(p, a.p, "consume", token.kind, TRUE))
             ELSE Err(u.err, Logged(p, a.p, "consume", token.kind, FALSE))
    ELSE LET found == unwrap_result(peek(p))
             q == Logged(p, p, "consume", token.kind, FALSE)
         IN  IF ~found.ok THEN Err(found.err, q)
             ELSE Err(TokenMismatch("Expected token of type {expected}, found {found}",
                                    token, found.val.token_type), q)

----------------------------------------------------------------------------
(* Token streams.                                                          *)

\* Longest stream of the exhaustive family, most lines of a program, most
\* arguments of a call.
MaxLen == 2
MaxLines == 3
MaxArgs == 2

\* Payloads of the literal tokens and names of the symbols.
Literals == {TTV("Integer", 1), TTV("Float", 2), TTV("Boolean", TRUE)}
Symbols == {TTV("Symbol", "a"), TTV("Symbol", "b")}
TokenTypes == {TT(k) : k \in MarkerKinds} \cup Literals \cup Symbols

\* The position the lexer gives the i-th token: lines end at EndOfLine.
RECURSIVE LineStart(_, _)
LineStart(types, i) ==
    IF i = 1 THEN 1
    ELSE IF types[i - 1].kind = "EndOfLine" THEN i
    ELSE LineStart(types, i - 1)

Position(types, i) ==
    [line |-> 1 + Cardinality({j \in 1..(i - 1) : types[j].kind = "EndOfLine"}),
     col |-> i - LineStart(types, i) + 1]

Tokens(types) ==
    [i \in 1..Len(types) |-> [token_type |-> types[i], position |-> Position(types, i)]]

ShortStreams == UNION {[1..n -> TokenTypes] : n \in 0..MaxLen}


\* The tokens of the binary layers: or, and, equality, comparison,
\* additive, multiplicative.
BinaryOperators ==
    {TT(k) : k \in {"Or", "And", "Equal", "NotEqual", "LesserThan", "GreaterThan",
                    "LesserThanEqual", "GreaterThanEqual", "Plus", "Minus",
                    "Multiply", "Divide", "Modulo"}}

\* a o b, one line, closed by EndOfFile.
BinaryStream(a, o, b) == <<a, o, b, TT("EndOfLine"), TT("EndOfFile")>>

BinaryStreams ==
    {BinaryStream(a, o, b) :
        a \in Literals \cup Symbols, b \in Literals \cup Symbols,
        o \in BinaryOperators}

\* a o1 b o2 c, one line, closed by EndOfFile.
OperatorStream(a, o1, b, o2, c) ==
    <<a, o1, b, o2, c, TT("EndOfLine"), TT("EndOfFile")>>

OperatorStreams ==
    {OperatorStream(a, o1, b, o2, c) :
        a \in Literals, b \in Literals, c \in Literals,
        o1 \in BinaryOperators, o2 \in BinaryOperators}

\* target = target = value
ChainStreams ==
    {OperatorStream(a, TT("Equal"), b, TT("Equal"), c) :
        a \in Symbols, b \in Symbols, c \in Literals}

\* n arguments separated by commas.
RECURSIVE Arguments(_)
Arguments(n) ==
    IF n = 0 THEN <<>>
    ELSE IF n = 1 THEN <<TTV("Integer", 1)>>
    ELSE Arguments(n - 1) \o <<TT("Comma"), TTV("Float", 2)>>

\* callee ( arguments, then any one token or `)()`, on one line.
CallStream(n, tail) ==
    <<TTV("Boolean", TRUE), TT("LeftParen")>> \o Arguments(n) \o tail
        \o <<TT("EndOfLine"), TT("EndOfFile")>>

CallStreams ==
    {CallStream(n, tail) :
        n \in 0..MaxArgs,
        tail \in {<<t>> : t \in TokenTypes}
                 \cup {<<TT("RightParen"), TT("LeftParen"), TT("RightParen")>>}}

\* The lines programs are made of: blank, return, return with a value,
\* expression statements, a line that lacks its terminator and a call.
Lines ==
    {<<TT("EndOfLine")>>,
     <<TT("Return"), TT("EndOfLine")>>,
     <<TT("Return"), TTV("Integer", 1), TT("EndOfLine")>>,
     <<TTV("Integer", 1), TT("EndOfLine")>>,
     <<TT("Minus"), TTV("Float", 2), TT("LesserThan"), TTV("Integer", 1), TT("EndOfLine")>>,
     <<TTV("Boolean", TRUE)>>,
     <<TTV("Integer", 1), TT("LeftParen"), TT("RightParen"), TT("EndOfLine")>>}

RECURSIVE Programs(_)
Programs(n) ==
    IF n = 0 THEN {<<>>}
    ELSE LET shorter == Programs(n - 1)
         IN  shorter \cup {prog \o line : prog \in shorter, line \in Lines}

\* Programs of up to MaxLines lines, with and without the EndOfFile marker.
LineStreams ==
    LET progs == Programs(MaxLines)
    IN  progs \cup {prog \o <<TT("EndOfFile")>> : prog \in progs}

Streams ==
    ShortStreams \cup BinaryStreams \cup OperatorStreams \cup ChainStreams
        \cup CallStreams \cup LineStreams

----------------------------------------------------------------------------
(* The error aggregate ParserErrors (create_error_list!) and the driver.   *)

NoResult == [ok |-> FALSE, running |-> TRUE]
NoReportable == [list |-> "none"]

\* impl From<Box<dyn std::error::Error>> for ParserErrors
FromBoxedError(list, err) == [list |-> list, case |-> "Error", inner |-> err]

\* impl From<&str> for ParserErrors
FromStr(list, err) == [list |-> list, case |-> "String", text |-> err]

\* extract_type!(err, parent, name, (arg) => body): the values `body` runs on.
extract_type(err, parent, name) ==
    IF err.list = parent
    THEN IF err.case = "Error"
         THEN IF err.inner.type = name THEN <<err.inner>> ELSE <<>>
         ELSE <<>>
    ELSE <<>>

\* What evaluator.eval()? can fail with: values of another aggregate.
EvaluatorFailures ==
    {FromStr("EvaluatorErrors", "evaluation failed"),
     FromBoxedError("EvaluatorErrors", StringError("evaluation failed")),
     FromBoxedError("EvaluatorErrors",
                    TokenMismatch("Expected token of type {expected}, found {found}",
                                  TT("EndOfLine"), TT("EndOfFile")))}

----------------------------------------------------------------------------
(* The call stack.  A frame is one running production: `fn` names it, `at` *)
(* is where it resumes when the production it called returns, and          *)
(* `expression`, `operator` and `arguments` are its locals of those names   *)
(* (callee, for finish_call, is kept in `expression`).                      *)

NoExpression == [node |-> "none"]

Frame(fn) ==
    [fn |-> fn, at |-> "start", expression |-> NoExpression,
     operator |-> None, arguments |-> <<>>]

\* What a production hands back to its caller: ParserResult<T>.
NoReturn == [state |-> "none"]
ReturnOk(val) == [state |-> "ok", val |-> val]
ReturnErr(err) == [state |-> "err", err |-> err]

Top == stack[Len(stack)]
Rest == SubSeq(stack, 1, Len(stack) - 1)

\* The running production stays on the stack as `frame` and calls `fn`.
Call(frame, fn) == Append(Append(Rest, frame), Frame(fn))

\* The running production, to resume at `label`.
At(label) == [Top EXCEPT !.at = label]

\* The parser state at the start of a step.
Here == [current |-> current, trace |-> <<>>]

\* Production `fn` has just been called.
Entering(fn) ==
    /\ pc = "parse"
    /\ stack # <<>>
    /\ Top.fn = fn
    /\ Top.at = "start"
    /\ ret.state = "none"

\* Production `fn` gets back Ok(ret.val) from the call it made at `at`.
Resuming(fn, at) ==
    /\ pc = "parse"
    /\ stack # <<>>
    /\ Top.fn = fn
    /\ Top.at = at
    /\ ret.state = "ok"

\* The effect of a step of an expression or statement production: the
\* cursor primitives it applied led to p, the stack and the returned value
\* are as given.  The first Err returned is recorded in `raised`.
Step(p, frames, value) ==
    /\ current' = p.current
    /\ trace' = p.trace
    /\ before' = current
    /\ stack' = frames
    /\ ret' = value
    /\ raised' = IF value.state = "err" /\ ~raised.some
                 THEN Some([err |-> value.err, current |-> p.current,
                            by |-> Top.fn, statements |-> Len(statements)])
                 ELSE raised
    /\ UNCHANGED <<tokens, statements, pc, result, reportable, handled, starts>>

----------------------------------------------------------------------------
(* parse and parse_statements.                                             *)

\* parse() calls parse_statements().
parse ==
    /\ Entering("parse")
    /\ Step(Here, Call(At("parse_statements"), "parse_statements"), NoReturn)

\* The `while` of parse_statements with the Vec holding `stmts`: call
\* declaration() for the next statement, or return the Vec at end of input.
parse_statements_while(stmts) ==
    /\ statements' = stmts
    /\ trace' = <<>>
    /\ before' = current
    /\ IF ~is_at_end(Here)
       THEN /\ stack' = Call(At("declaration"), "declaration")
            /\ ret' = NoReturn
            /\ starts' = Append(starts, current)
       ELSE /\ stack' = Rest
            /\ ret' = ReturnOk(stmts)
            /\ starts' = starts
    /\ UNCHANGED <<tokens, current, pc, result, reportable, handled, raised>>

parse_statements ==
    /\ Entering("parse_statements")
    /\ parse_statements_while(<<>>)

\* statements.push(declaration()?) and the next test of the `while`.
parse_statements_push ==
    /\ Resuming("parse_statements", "declaration")
    /\ parse_statements_while(Append(statements, ret.val))

\* `?`: a production that gets back Err returns it at once; its locals are
\* dropped.
Propagate ==
    /\ pc = "parse"
    /\ ret.state = "err"
    /\ Len(stack) > 1
    /\ stack' = Rest
    /\ statements' = IF Top.fn = "parse_statements" THEN <<>> ELSE statements
    /\ trace' = <<>>
    /\ before' = current
    /\ UNCHANGED <<tokens, current, ret, pc, result, reportable, handled, raised,
                   starts>>

\* Mutant of ParseFails: the error is swallowed and an empty program is
\* returned.
ParseFailsReturnsEmptyProgram ==
    /\ pc = "parse"
    /\ ret.state = "err"
    /\ Len(stack) = 1
    /\ result' = [ok |-> TRUE, val |-> Program(statements)]
    /\ pc' = "returned"
    /\ stack' = <<>>
    /\ ret' = NoReturn
    /\ trace' = <<>>
    /\ before' = current
    /\ UNCHANGED <<tokens, current, statements, reportable, handled, raised, starts>>

\* parse() gets back Err: `?` converts it by From<Box<dyn Error>> and
\* returns.
ParseFails ==
    /\ pc = "parse"
    /\ ret.state = "err"
    /\ Len(stack) = 1
    /\ result' = [ok |-> FALSE, err |-> FromBoxedError("ParserErrors", ret.err)]
    /\ pc' = "returned"
    /\ stack' = <<>>
    /\ ret' = NoReturn
    /\ trace' = <<>>
    /\ before' = current
    /\ UNCHANGED <<tokens, current, statements, reportable, handled, raised, starts>>

\* parse() gets back the statements: Ok(Node::Program(statements)).
ParseReturns ==
    /\ Resuming("parse", "parse_statements")
    /\ result' = [ok |-> TRUE, val |-> Program(ret.val)]
    /\ pc' = "returned"
    /\ stack' = <<>>
    /\ ret' = NoReturn
    /\ trace' = <<>>
    /\ before' = current
    /\ UNCHANGED <<tokens, current, statements, reportable, handled, raised, starts>>

----------------------------------------------------------------------------
(* Statement productions.                                                  *)

declaration ==
    /\ Entering("declaration")
    /\ Step(Here, Call(At("statement"), "statement"), NoReturn)

\* Ok(self.statement()?)
declaration_returns ==
    /\ Resuming("declaration", "statement")
    /\ Step(Here, Rest, ReturnOk(ret.val))

statement ==
    /\ Entering("statement")
    /\ LET eol == matches(Here, TT("EndOfLine"))
           rtn == matches(eol.p, TT("Return"))
       IN  IF eol.b THEN Step(eol.p, Rest, ReturnOk(EmptyStatement))
           ELSE IF rtn.b
           THEN Step(rtn.p, Call(At("return_statement"), "return_statement"),
                     NoReturn)
           ELSE Step(rtn.p, Call(At("expression_statement"), "expression_statement"),
                     NoReturn)

\* return self.return_statement(), Ok(Node::ExpressionStatement(..))
statement_returns ==
    /\ \E at \in {"return_statement", "expression_statement"} :
          Resuming("statement", at)
    /\ Step(Here, Rest, ReturnOk(ret.val))

return_statement ==
    /\ Entering("return_statement")
    /\ LET eol == matches(Here, TT("EndOfLine"))
       IN  IF ~eol.b
           THEN Step(eol.p, Call(At("expression"), "expression"), NoReturn)
           ELSE Step(eol.p, Rest, ReturnOk(ReturnStatement(None)))

\* The value is parsed; the consume of EndOfLine is commented out.
return_statement_returns ==
    /\ Resuming("return_statement", "expression")
    /\ Step(Here, Rest, ReturnOk(ReturnStatement(Some(ret.val))))

expression_statement ==
    /\ Entering("expression_statement")
    /\ Step(Here, Call(At("expression"), "expression"), NoReturn)

\* self.consume(TokenType::EndOfLine)?; Ok(ExpressionStatement(expression))
expression_statement_consume ==
    /\ Resuming("expression_statement", "expression")
    /\ LET c == consume(Here, TT("EndOfLine"))
       IN  IF c.ok THEN Step(c.p, Rest, ReturnOk(ExpressionStatement(ret.val)))
           ELSE Step(c.p, Rest, ReturnErr(c.err))

----------------------------------------------------------------------------
(* Expression productions, lowest precedence first (expression itself is   *)
(* found with finish_call, its other caller).  For a production with       *)
(* a `while` loop, <production>_while(expression) is the test of the loop  *)
(* with the accumulator holding `expression`, <production>_left the step   *)
(* after the left operand and <production>_right the step after a right    *)
(* operand.                                                                *)

assignment ==
    /\ Entering("assignment")
    /\ Step(Here, Call(At("or"), "or"), NoReturn)

\* After self.or()?: an Equal starts the value, parsed by assignment
\* itself.  After self.assignment()?: the target must be a Variable.
assignment_returns ==
    /\ \E at \in {"or", "assignment"} : Resuming("assignment", at)
    /\ LET m == matches(Here, TT("Equal"))
       IN  IF Top.at = "or"
           THEN IF m.b
                THEN Step(m.p,
                          Call([Top EXCEPT !.at = "assignment",
                                           !.expression = ret.val],
                               "assignment"),
                          NoReturn)
                ELSE Step(m.p, Rest, ReturnOk(ret.val))
           ELSE IF Top.expression.node = "Variable"
           THEN Step(Here, Rest, ReturnOk(Assignment(Top.expression, ret.val)))
           ELSE Step(Here, Rest, ReturnErr(StringError("Invalid assignment target")))

or ==
    /\ Entering("or")
    /\ Step(Here, Call(At("left"), "and"), NoReturn)

or_while(expression) ==
    LET m == matches(Here, TT("Or"))
    IN  IF ~m.b THEN Step(m.p, Rest, ReturnOk(expression))
        ELSE Step(m.p,
                  Call([Top EXCEPT !.at = "right", !.expression = expression], "and"),
                  NoReturn)

or_left ==
    /\ Resuming("or", "left")
    /\ or_while(ret.val)

or_right ==
    /\ Resuming("or", "right")
    /\ or_while(LogicalExpression(Top.expression, "Or", ret.val))

and ==
    /\ Entering("and")
    /\ Step(Here, Call(At("left"), "equality"), NoReturn)

and_while(expression) ==
    LET m == matches(Here, TT("And"))
    IN  IF ~m.b THEN Step(m.p, Rest, ReturnOk(expression))
        ELSE Step(m.p,
                  Call([Top EXCEPT !.at = "right", !.expression = expression],
                       "equality"),
                  NoReturn)

and_left ==
    /\ Resuming("and", "left")
    /\ and_while(ret.val)

and_right ==
    /\ Resuming("and", "right")
    /\ and_while(LogicalExpression(Top.expression, "And", ret.val))

\* The test of a `while self.match_one_of(toks)` loop whose body starts
\* with `let operator = unwrap_result(self.previous())?` and then calls
\* production `operand` for the right operand.
operator_while(toks, operand, expression) ==
    LET m == match_one_of(Here, toks)
        prev == previous(m.p)
        operator == unwrap_result(prev.ret)
    IN  IF ~m.b THEN Step(m.p, Rest, ReturnOk(expression))
        ELSE IF ~operator.ok THEN Step(prev.p, Rest, ReturnErr(operator.err))
        ELSE Step(prev.p,
                  Call([Top EXCEPT !.at = "right", !.expression = expression,
                                   !.operator = Some(operator.val)],
                       operand),
                  NoReturn)

equality ==
    /\ Entering("equality")
    /\ Step(Here, Call(At("left"), "comparison"), NoReturn)

equality_while(expression) ==
    operator_while(<<TT("Equal"), TT("NotEqual")>>, "comparison", expression)

equality_left ==
    /\ Resuming("equality", "left")
    /\ equality_while(ret.val)

\* Mutant of equality_right: the diagnostic names the operator as expected.
equality_right_expects_operator ==
    /\ Resuming("equality", "right")
    /\ LET operator == Top.operator.v
           op == op_token_to_arithmetic(operator)
       IN  IF ~op.some
           THEN Step(Here, Rest,
                     ReturnErr(TokenMismatch(
                                 "Expected token of type {expected}, found {found}",
                                 operator.token_type, operator.token_type)))
           ELSE equality_while(BinaryExpression(Top.expression, Arithmetic(op.v),
                                                ret.val))

equality_right ==
    /\ Resuming("equality", "right")
    /\ LET operator == Top.operator.v
           op == op_token_to_arithmetic(operator)
       IN  IF ~op.some
           THEN Step(Here, Rest,
                     ReturnErr(TokenMismatch(
                                 "Expected token of type {expected}, found {found}",
                                 TT("Equal"), operator.token_type)))
           ELSE equality_while(BinaryExpression(Top.expression, Arithmetic(op.v),
                                                ret.val))

comparison ==
    /\ Entering("comparison")
    /\ Step(Here, Call(At("left"), "addition"), NoReturn)

comparison_while(expression) ==
    operator_while(<<TT("LesserThan"), TT("GreaterThan"), TT("LesserThanEqual"),
                     TT("GreaterThanEqual")>>,
                   "addition", expression)

comparison_left ==
    /\ Resuming("comparison", "left")
    /\ comparison_while(ret.val)

\* Mutant of comparison_right: the operands are folded the other way round.
comparison_right_swaps_operands ==
    /\ Resuming("comparison", "right")
    /\ LET comparison_operator == unwrap_result(op_token_to_logical(Top.operator.v))
       IN  IF ~comparison_operator.ok
           THEN Step(Here, Rest, ReturnErr(comparison_operator.err))
           ELSE comparison_while(LogicalExpression(ret.val,
                                                   comparison_operator.val,
                                                   Top.expression))

comparison_right ==
    /\ Resuming("comparison", "right")
    /\ LET comparison_operator == unwrap_result(op_token_to_logical(Top.operator.v))
       IN  IF ~comparison_operator.ok
           THEN Step(Here, Rest, ReturnErr(comparison_operator.err))
           ELSE comparison_while(LogicalExpression(Top.expression,
                                                   comparison_operator.val,
                                                   ret.val))

addition ==
    /\ Entering("addition")
    /\ Step(Here, Call(At("left"), "multiplication"), NoReturn)

\* Mutant of addition_while: the right operand is parsed one layer too high.
addition_while_unary_operand(expression) ==
    operator_while(<<TT("Minus"), TT("Plus")>>, "unary", expression)

addition_while(expression) ==
    operator_while(<<TT("Minus"), TT("Plus")>>, "multiplication", expression)

addition_left ==
    /\ Resuming("addition", "left")
    /\ addition_while(ret.val)

addition_right ==
    /\ Resuming("addition", "right")
    /\ LET arithmetic_operator ==
               unwrap_result(op_token_to_arithmetic(Top.operator.v))
       IN  IF ~arithmetic_operator.ok
           THEN Step(Here, Rest, ReturnErr(arithmetic_operator.err))
           ELSE addition_while(BinaryExpression(Top.expression,
                                                Arithmetic(arithmetic_operator.val),
                                                ret.val))

multiplication ==
    /\ Entering("multiplication")
    /\ Step(Here, Call(At("left"), "unary"), NoReturn)

multiplication_while(expression) ==
    operator_while(<<TT("Multiply"), TT("Divide"), TT("Modulo")>>, "unary",
                   expression)

multiplication_left ==
    /\ Resuming("multiplication", "left")
    /\ multiplication_while(ret.val)

multiplication_right ==
    /\ Resuming("multiplication", "right")
    /\ LET arithmetic_operator ==
               unwrap_result(op_token_to_arithmetic(Top.operator.v))
       IN  IF ~arithmetic_operator.ok
           THEN Step(Here, Rest, ReturnErr(arithmetic_operator.err))
           ELSE multiplication_while(
                    BinaryExpression(Top.expression,
                                     Arithmetic(arithmetic_operator.val),
                                     ret.val))

\* Mutant of unary: a leading Plus is taken for a unary operator too.
unary_matches_plus ==
    /\ Entering("unary")
    /\ LET m == match_one_of(Here, <<TT("Minus"), TT("Not"), TT("Plus")>>)
           prev == previous(m.p)
           operator == unwrap_result(prev.ret)
       IN  IF ~m.b THEN Step(m.p, Call(At("call"), "call"), NoReturn)
           ELSE IF ~operator.ok THEN Step(prev.p, Rest, ReturnErr(operator.err))
           ELSE Step(prev.p,
                     Call([Top EXCEPT !.at = "right",
                                      !.operator = Some(operator.val)],
                          "unary"),
                     NoReturn)

unary ==
    /\ Entering("unary")
    /\ LET m == match_one_of(Here, <<TT("Minus"), TT("Not")>>)
           prev == previous(m.p)
           operator == unwrap_result(prev.ret)
       IN  IF ~m.b THEN Step(m.p, Call(At("call"), "call"), NoReturn)
           ELSE IF ~operator.ok THEN Step(prev.p, Rest, ReturnErr(operator.err))
           ELSE Step(prev.p,
                     Call([Top EXCEPT !.at = "right",
                                      !.operator = Some(operator.val)],
                          "unary"),
                     NoReturn)

\* let right = self.unary()?; the operator is mapped and the node built.
unary_right ==
    /\ Resuming("unary", "right")
    /\ LET kind == Top.operator.v.token_type.kind
           unary_operator ==
               IF kind = "Minus" THEN Some(Arithmetic("Minus"))
               ELSE IF kind = "Not" THEN Some(Logical("Not"))
               ELSE None
       IN  IF ~unary_operator.some
           THEN Step(Here, Rest, ReturnErr(StringError("bbbb")))
           ELSE IF unary_operator.v.class \in {"Arithmetic", "Logical"}
           THEN Step(Here, Rest,
                     ReturnOk(UnaryExpression(unary_operator.v, ret.val)))
           ELSE Step(Here, Rest, ReturnErr(StringError("fff")))

\* self.call()
unary_returns ==
    /\ Resuming("unary", "call")
    /\ Step(Here, Rest, ReturnOk(ret.val))

call ==
    /\ Entering("call")
    /\ Step(Here, Call(At("primary"), "primary"), NoReturn)

\* The `loop` of call: a LeftParen starts a call of the expression so far.
call_loop ==
    /\ \E at \in {"primary", "finish_call"} : Resuming("call", at)
    /\ LET m == matches(Here, TT("LeftParen"))
       IN  IF m.b
           THEN Step(m.p,
                     Append(Append(Rest, At("finish_call")),
                            [Frame("finish_call") EXCEPT !.expression = ret.val]),
                     NoReturn)
           ELSE Step(m.p, Rest, ReturnOk(ret.val))

\* expression: called for a statement's expression and for each argument.
expression ==
    /\ Entering("expression")
    /\ Step(Here, Call(At("assignment"), "assignment"), NoReturn)

\* self.assignment()
expression_returns ==
    /\ Resuming("expression", "assignment")
    /\ Step(Here, Rest, ReturnOk(ret.val))

\* finish_call(callee): `callee` is the frame's `expression`.  With no
\* RightParen under the cursor the first argument is parsed.
finish_call_consume(p, arguments) ==
    LET c == consume(p, TT("RightParen"))
        found == unwrap_result(peek(c.p))
    IN  IF c.ok
        THEN Step(c.p, Rest, ReturnOk(CallExpression(Top.expression, arguments)))
        ELSE IF ~found.ok THEN Step(c.p, Rest, ReturnErr(found.err))
        ELSE Step(c.p, Rest,
                  ReturnErr(TokenMismatch("Expected ) after arguments",
                                          TT("RightParen"),
                                          found.val.token_type)))

finish_call ==
    /\ Entering("finish_call")
    /\ IF ~check(Here, TT("RightParen"))
       THEN Step(Here, Call(At("argument"), "expression"), NoReturn)
       ELSE finish_call_consume(Here, <<>>)

\* arguments.push(self.expression()?); a Comma starts the next argument.
finish_call_argument ==
    /\ Resuming("finish_call", "argument")
    /\ LET arguments == Append(Top.arguments, ret.val)
           m == matches(Here, TT("Comma"))
       IN  IF m.b
           THEN Step(m.p, Call([Top EXCEPT !.arguments = arguments], "expression"),
                     NoReturn)
           ELSE finish_call_consume(m.p, arguments)

primary ==
    /\ Entering("primary")
    /\ LET pk == unwrap_result(peek(Here))
           token == pk.val.token_type
       IN  IF ~pk.ok
           THEN Step(Logged(Here, Here, "primary", "", FALSE), Rest,
                     ReturnErr(pk.err))
           ELSE IF token.kind \in LiteralKinds
           THEN Step(Logged(Here, advance(Here).p, "primary", "", TRUE), Rest,
                     ReturnOk(Literal(token.kind, token.value)))
           ELSE Step(Logged(Here, Here, "primary", "", FALSE), Rest,
                     ReturnErr(ExpectedExpression(token)))

----------------------------------------------------------------------------
(* The driver: Parser::from, interpret and handle_errors.                  *)

Init ==
    /\ tokens \in {Tokens(types) : types \in Streams}
    /\ current = 0
    /\ stack = <<Frame("parse")>>
    /\ ret = NoReturn
    /\ statements = <<>>
    /\ pc = "parse"
    /\ result = NoResult
    /\ reportable = NoReportable
    /\ handled = <<>>
    /\ trace = <<>>
    /\ before = 0
    /\ raised = None
    /\ starts = <<>>

\* interpret: `parser.parse()?` converts the aggregate into Box<dyn ErrorList>.
ParseErrorReported ==
    /\ pc = "returned"
    /\ ~result.ok
    /\ reportable' = result.err
    /\ pc' = "handle_errors"
    /\ UNCHANGED <<tokens, current, stack, ret, statements, result, handled,
                   trace, before, raised, starts>>

\* interpret: the evaluator runs on the tree and succeeds.
Evaluated ==
    /\ pc = "returned"
    /\ result.ok
    /\ pc' = "done"
    /\ UNCHANGED <<tokens, current, stack, ret, statements, result, reportable,
                   handled, trace, before, raised, starts>>

\* interpret: `evaluator.eval()?` fails with a value of its own aggregate.
EvaluationFails ==
    /\ pc = "returned"
    /\ result.ok
    /\ reportable' \in EvaluatorFailures
    /\ pc' = "handle_errors"
    /\ UNCHANGED <<tokens, current, stack, ret, statements, result, handled,
                   trace, before, raised, starts>>

\* handle_errors: typed extraction for (ParserErrors, TokenMismatch).
HandleErrors ==
    /\ pc = "handle_errors"
    /\ handled' = extract_type(reportable, "ParserErrors", "TokenMismatch")
    /\ pc' = "done"
    /\ UNCHANGED <<tokens, current, stack, ret, statements, result, reportable,
                   trace, before, raised, starts>>

Next ==
    \/ parse
    \/ parse_statements
    \/ parse_statements_push
    \/ Propagate
    \/ ParseFails
    \/ ParseReturns
    \/ declaration
    \/ declaration_returns
    \/ statement
    \/ statement_returns
    \/ return_statement
    \/ return_statement_returns
    \/ expression_statement
    \/ expression_statement_consume
    \/ expression
    \/ expression_returns
    \/ assignment
    \/ assignment_returns
    \/ or
    \/ or_left
    \/ or_right
    \/ and
    \/ and_left
    \/ and_right
    \/ equality
    \/ equality_left
    \/ equality_right
    \/ comparison
    \/ comparison_left
    \/ comparison_right
    \/ addition
    \/ addition_left
    \/ addition_right
    \/ multiplication
    \/ multiplication_left
    \/ multiplication_right
    \/ unary
    \/ unary_right
    \/ unary_returns
    \/ call
    \/ call_loop
    \/ finish_call
    \/ finish_call_argument
    \/ primary
    \/ ParseErrorReported
    \/ Evaluated
    \/ EvaluationFails
    \/ HandleErrors

Spec == Init /\ [][Next]_vars

----------------------------------------------------------------------------
(* Definitions the properties share.                                       *)

\* parse() has just returned.
Returned == pc = "returned"

\* The token types of the stream.
Types == [i \in 1..Len(tokens) |-> tokens[i].token_type]

\* The tree of a literal token.
LiteralNode(t) == Literal(t.kind, t.value)

\* The cursor of the first EndOfFile token, or the length of the stream.
EofIndex ==
    IF \E i \in 1..Len(tokens) : tokens[i].token_type.kind = "EndOfFile"
    THEN (CHOOSE i \in 1..Len(tokens) :
              /\ tokens[i].token_type.kind = "EndOfFile"
              /\ \A j \in 1..(i - 1) : tokens[j].token_type.kind # "EndOfFile") - 1
    ELSE Len(tokens)

\* The statement the `statement` production builds when the token at
\* cursor c starts it.
StartsStatement(c) ==
    IF Types[c + 1].kind = "EndOfLine" THEN "EmptyStatement"
    ELSE IF Types[c + 1].kind = "Return" THEN "ReturnStatement"
    ELSE "ExpressionStatement"

\* The stream is `a o b EndOfLine EndOfFile`.
IsBinaryStream == Len(tokens) = 5 /\ Types = BinaryStream(Types[1], Types[2], Types[3])

\* The stream is `a o1 b o2 c EndOfLine EndOfFile`.
IsOperatorStream ==
    /\ Len(tokens) = 7
    /\ Types = OperatorStream(Types[1], Types[2], Types[3], Types[4], Types[5])

\* parse() returned the program of the one expression statement e.
ParsedTo(e) == result = [ok |-> TRUE, val |-> Program(<<ExpressionStatement(e)>>)]

----------------------------------------------------------------------------
(* C1: parse() is fail-fast and all-or-nothing.  Once a production has    *)
(* returned an error, the cursor stays where it was raised, every frame    *)
(* hands the same error on, and no further statement is started.  When     *)
(* parse() returns Ok, no error was raised, the Program holds one          *)
(* statement for each statement started, in source order, and the cursor   *)
(* is at the end of input.  When parse() returns Err, it is the first      *)
(* error raised, converted by From; there is no tree and the statements    *)
(* built before the failing one are dropped.                               *)

C1_FailFastAllOrNothing ==
    /\ raised.some =>
           /\ current = raised.v.current
           /\ Len(starts) = raised.v.statements + 1
           /\ Len(statements) <= raised.v.statements
           /\ pc = "parse" => ret = ReturnErr(raised.v.err)
    /\ (Returned /\ result.ok) =>
           /\ ~raised.some
           /\ result.val = Program(statements)
           /\ Len(statements) = Len(starts)
           /\ \A k \in 1..Len(starts) :
                  /\ statements[k].node = StartsStatement(starts[k])
                  /\ starts[k] >= (IF k = 1 THEN 0 ELSE starts[k - 1] + 1)
           /\ (starts # <<>>) => starts[1] = 0
           /\ is_at_end(Here)
    /\ (Returned /\ ~result.ok) =>
           /\ raised.some
           /\ "val" \notin DOMAIN result
           /\ statements = <<>>
           /\ result.err = FromBoxedError("ParserErrors", raised.v.err)

\* A parse that failed in its third statement.
C1_Witness ==
    /\ Returned
    /\ ~result.ok
    /\ raised.some
    /\ raised.v.statements = 2

----------------------------------------------------------------------------
(* C2: multiplicative operators bind tighter than additive ones.  For      *)
(* literals a, b, c, p in {Plus, Minus} and m in {Multiply, Divide,        *)
(* Modulo}, `a p b m c` parses to one expression statement holding         *)
(* BinaryExpression(a, p, BinaryExpression(b, m, c)), and `a m b p c` to   *)
(* BinaryExpression(BinaryExpression(a, m, b), p, c).                      *)

Additive == {TT("Plus"), TT("Minus")}
Multiplicative == {TT("Multiply"), TT("Divide"), TT("Modulo")}

Bin(l, o, r) == BinaryExpression(l, Arithmetic(o.kind), r)

C2_MultiplicationBindsTighter ==
    (Returned /\ IsOperatorStream /\ {Types[1], Types[3], Types[5]} \subseteq Literals) =>
        LET a == LiteralNode(Types[1])
            b == LiteralNode(Types[3])
            c == LiteralNode(Types[5])
            o1 == Types[2]
            o2 == Types[4]
        IN  /\ (o1 \in Additive /\ o2 \in Multiplicative)
                  => ParsedTo(Bin(a, o1, Bin(b, o2, c)))
            /\ (o1 \in Multiplicative /\ o2 \in Additive)
                  => ParsedTo(Bin(Bin(a, o1, b), o2, c))

\* `1 - 2.0 % true` has been parsed.
C2_Witness ==
    /\ Returned /\ result.ok
    /\ Types = OperatorStream(TTV("Integer", 1), TT("Minus"), TTV("Float", 2),
                              TT("Modulo"), TTV("Boolean", TRUE))

----------------------------------------------------------------------------
(* C3: the binary layers fold left.  For literals a, b, c and operators    *)
(* o1, o2 of one layer (or; and; comparison; additive; multiplicative),    *)
(* `a o1 b o2 c` parses to Op(Op(a, o1, b), o2, c): a LogicalExpression    *)
(* for or, and and the comparisons, a BinaryExpression for the arithmetic  *)
(* layers.                                                                 *)

Layers ==
    {{TT("Or")}, {TT("And")},
     {TT("LesserThan"), TT("GreaterThan"), TT("LesserThanEqual"), TT("GreaterThanEqual")},
     Additive, Multiplicative}

\* The node a layer builds for operator o.
Op(l, o, r) ==
    IF o \in Additive \cup Multiplicative
    THEN BinaryExpression(l, Arithmetic(o.kind), r)
    ELSE LogicalExpression(l, o.kind, r)

C3_BinaryLayersFoldLeft ==
    (Returned /\ IsOperatorStream /\ {Types[1], Types[3], Types[5]} \subseteq Literals) =>
        \A layer \in Layers :
            (Types[2] \in layer /\ Types[4] \in layer) =>
                /\ ParsedTo(Op(Op(LiteralNode(Types[1]), Types[2], LiteralNode(Types[3])),
                               Types[4], LiteralNode(Types[5])))
                /\ ~ParsedTo(Op(LiteralNode(Types[1]), Types[2],
                                Op(LiteralNode(Types[3]), Types[4], LiteralNode(Types[5]))))

\* `1 < 2.0 >= true` has been parsed.
C3_Witness ==
    /\ Returned /\ result.ok
    /\ Types = OperatorStream(TTV("Integer", 1), TT("LesserThan"), TTV("Float", 2),
                              TT("GreaterThanEqual"), TTV("Boolean", TRUE))

----------------------------------------------------------------------------
(* C4: assignment-target validation.  `literal = literal` fails with the   *)
(* generic "Invalid assignment target" error, not with a TokenMismatch.    *)

C4_InvalidAssignmentTarget ==
    (/\ Returned
     /\ IsBinaryStream
     /\ Types[1] \in Literals
     /\ Types[2] = TT("Equal")
     /\ Types[3] \in Literals) =>
        /\ ~result.ok
        /\ result.err =
              FromBoxedError("ParserErrors", StringError("Invalid assignment target"))

----------------------------------------------------------------------------
(* C5: assignment is right-associative and reachable.  The chain           *)
(* `a = b = 1` parses to Assignment(a, Assignment(b, 1)).                  *)

C5_AssignmentChain ==
    (Returned /\ Types \in ChainStreams) =>
        ParsedTo(Assignment(Variable(Types[1].value),
                            Assignment(Variable(Types[3].value),
                                       LiteralNode(Types[5]))))

----------------------------------------------------------------------------
(* C6: the equality layer always fails.  Once an Equal or NotEqual token *)
(* has been consumed, the parse has failed or the equality production      *)
(* still waits for the operand after it: it never returns a node.  The     *)
(* parse then fails, and when it is equality itself that raises (the       *)
(* operand after the token t parsed at the comparison level) the failure   *)
(* is a TokenMismatch expecting Equal that found t; so it is for every     *)
(* stream `a t b ...` of literals.                                         *)

EqualityKinds == {"Equal", "NotEqual"}

\* parse() failed with a TokenMismatch of these expected and found kinds.
FailedWithMismatch(expected, found) ==
    /\ ~result.ok
    /\ result.err.case = "Error"
    /\ result.err.inner.type = "TokenMismatch"
    /\ result.err.inner.expected = expected
    /\ result.err.inner.found = found

\* The indices of the equality tokens consumed so far.
EqualityConsumed == {i \in 1..current : Types[i].kind \in EqualityKinds}

\* The last of them.
LastEquality == CHOOSE i \in EqualityConsumed : \A j \in EqualityConsumed : j <= i

C6_EqualityLayerAlwaysFails ==
    /\ (pc = "parse" /\ EqualityConsumed # {}) =>
           \/ raised.some
           \/ \E k \in 1..Len(stack) :
                  /\ stack[k].fn = "equality"
                  /\ stack[k].at = "right"
                  /\ stack[k].operator = Some(tokens[LastEquality])
    /\ (Returned /\ EqualityConsumed # {}) =>
           /\ ~result.ok
           /\ raised.v.by = "equality" =>
                  FailedWithMismatch(TT("Equal"), Types[LastEquality])
    /\ (/\ Returned
        /\ IsBinaryStream \/ IsOperatorStream
        /\ {Types[1], Types[3]} \subseteq Literals
        /\ Types[2].kind \in EqualityKinds
        /\ IsOperatorStream => Types[5] \in Literals)
           => FailedWithMismatch(TT("Equal"), Types[2])

\* `1 != 2.0` has failed with a TokenMismatch raised by equality.
C6_Witness ==
    /\ Returned
    /\ Types = BinaryStream(TTV("Integer", 1), TT("NotEqual"), TTV("Float", 2))
    /\ raised.v.by = "equality"
    /\ FailedWithMismatch(TT("Equal"), TT("NotEqual"))

----------------------------------------------------------------------------
(* C7: line/statement correspondence.  When parse() succeeds on a stream   *)
(* closed by EndOfFile, the Program has as many statements as the stream   *)
(* has EndOfLine tokens before EndOfFile.                                  *)

C7_LineStatementCorrespondence ==
    (Returned /\ result.ok /\ EofIndex < Len(tokens)) =>
        Len(result.val.statements) =
            Cardinality({i \in 1..EofIndex : Types[i].kind = "EndOfLine"})

----------------------------------------------------------------------------
(* C8: the contract of consume(kind) at every call site.  With a token    *)
(* under the cursor: if it has kind `kind` the cursor advances by one;     *)
(* otherwise the cursor stays and the calling production returns a         *)
(* TokenMismatch whose expected is `kind` and whose found is that token,   *)
(* which is what parse() then fails with.  Hence a literal followed by a   *)
(* token that neither continues the expression nor ends the line fails     *)
(* expecting EndOfLine, and an argument list followed by such a token      *)
(* fails expecting RightParen.                                             *)

\* Tokens that cannot follow an operand inside an expression.
NotInfix ==
    Literals \cup Symbols
        \cup {TT(k) : k \in {"Return", "Not", "EndOfLine", "EndOfFile", "RightParen", "Comma"}}

\* The productions that call consume.
ConsumeSites == {"expression_statement", "finish_call"}

C8_ConsumeContract ==
    /\ \A i \in 1..Len(trace) :
           (trace[i].op = "consume" /\ trace[i].from < Len(tokens)) =>
               LET e == trace[i]
                   found == tokens[e.from + 1].token_type
               IN  IF found.kind = e.arg
                   THEN e.ok /\ e.to = e.from + 1 /\ current = e.to
                   ELSE /\ ~e.ok
                        /\ e.to = e.from
                        /\ current = e.from
                        /\ ret = ReturnErr(ret.err)
                        /\ ret.err.type = "TokenMismatch"
                        /\ ret.err.expected = TT(e.arg)
                        /\ ret.err.found = found
                        /\ raised.v.err = ret.err
    /\ (/\ Returned
        /\ raised.some
        /\ raised.v.by \in ConsumeSites
        /\ raised.v.current < Len(tokens))
           => /\ current = raised.v.current
              /\ \E kind \in {"EndOfLine", "RightParen"} :
                     /\ kind # Types[current + 1].kind
                     /\ FailedWithMismatch(TT(kind), Types[current + 1])
    /\ (/\ Returned
        /\ Len(tokens) >= 2
        /\ Types[1] \in Literals
        /\ Types[2] \in NotInfix \ {TT("EndOfLine")})
           => FailedWithMismatch(TT("EndOfLine"), Types[2])
    /\ (/\ Returned
        /\ \E n \in 1..MaxArgs :
               \E t \in NotInfix \ {TT("RightParen"), TT("Comma")} :
                   Types = CallStream(n, <<t>>))
           => FailedWithMismatch(TT("RightParen"), Types[Len(tokens) - 2])

\* `true(1` followed by EndOfLine: consume(RightParen) has just failed in
\* finish_call.
C8_Witness ==
    /\ Types = CallStream(1, <<TT("EndOfLine")>>)
    /\ \E i \in 1..Len(trace) :
           trace[i] = Entry("consume", "RightParen", 3, 3, FALSE)
    /\ ret = ReturnErr(TokenMismatch("Expected ) after arguments",
                                     TT("RightParen"), TT("EndOfLine")))

----------------------------------------------------------------------------
(* C9: typed extraction round trip.  A TokenMismatch raised in the parser  *)
(* reaches the caller in the opaque case of ParserErrors, and typed        *)
(* extraction for (ParserErrors, TokenMismatch) runs the handler exactly   *)
(* once, on a value whose expected, found and position fields are those of *)
(* the raised diagnostic: the fields handle_errors reads.                  *)

C9_TypedExtractionRoundTrip ==
    (pc = "done" /\ ~result.ok /\ result.err.inner.type = "TokenMismatch") =>
        /\ result.err.case = "Error"
        /\ Len(handled) = 1
        /\ handled[1].expected = result.err.inner.expected
        /\ handled[1].found = result.err.inner.found
        /\ "position" \in DOMAIN handled[1]
        /\ handled[1].position = tokens[current + 1].position

----------------------------------------------------------------------------
(* C10: the cursor invariant.  In every state, and across every call of  *)
(* a cursor primitive made by the last step: the cursor never decreases,   *)
(* a call raises it by at most one, a failed call leaves it unchanged, and *)
(* it never passes the first EndOfFile token (or the end of the stream).   *)
(* The cursor moves only by these calls.                                   *)

C10_CursorInvariant ==
    /\ current <= EofIndex
    /\ before <= current
    /\ raised.some => raised.v.current <= current
    /\ \A k \in 1..Len(starts) : starts[k] <= current
    /\ trace = <<>> => current = before
    /\ \A i \in 1..Len(trace) :
           LET e == trace[i]
           IN  /\ before <= e.from
               /\ e.from <= e.to
               /\ e.to <= e.from + 1
               /\ ~e.ok => e.to = e.from
               /\ e.to <= EofIndex
               /\ IF i < Len(trace) THEN e.to <= trace[i + 1].to ELSE e.to = current

\* A step at cursor 3 or later in which a call of matches failed and a
\* call of consume then moved the cursor, with tokens left behind it.
C10_Witness ==
    /\ pc = "parse"
    /\ before >= 3
    /\ current = before + 1
    /\ current < EofIndex
    /\ \E i \in 1..Len(trace) : ~trace[i].ok /\ trace[i].op = "matches"
    /\ \E i \in 1..Len(trace) : trace[i].ok /\ trace[i].op = "consume"

----------------------------------------------------------------------------
(* C11: termination.  Every step of the program lowers a measure that is   *)
(* a natural number, and in every state in which parse() has not returned  *)
(* a step can be taken: so on every stream parse() returns and the driver  *)
(* finishes.  The measure counts the tokens left before everything else:   *)
(* a statement that parsed has moved the cursor, and a step that starts    *)
(* another iteration of an operator, call or argument loop has consumed a  *)
(* token.  No statement starts with the cursor on EndOfFile or past the    *)
(* stream: there the statement loop ends, and with no error raised before, *)
(* parse() returns the Program with the cursor at the end of input.  The   *)
(* empty stream and a lone EndOfFile give the empty Program.               *)

\* Frame f has called the production that parses the operand of one more
\* iteration of its loop.
IteratesAgain(f) ==
    \/ f.fn \in {"or", "and", "equality", "comparison", "addition", "multiplication"}
          /\ f.at = "right"
    \/ f.fn = "call" /\ f.at = "finish_call"
    \/ f.fn = "finish_call" /\ f.at = "argument" /\ f.arguments # <<>>

\* The production on top of the stack has just been called.
JustCalled ==
    /\ pc = "parse"
    /\ Len(stack) >= 2
    /\ Top.at = "start"
    /\ ret.state = "none"

\* The productions, and the points at which a production takes back the
\* result of one it called.
Productions ==
    {"parse", "parse_statements", "declaration", "statement", "return_statement",
     "expression_statement", "expression", "assignment", "or", "and", "equality",
     "comparison", "addition", "multiplication", "unary", "call", "finish_call",
     "primary"}

ResumePoints ==
    {<<"parse", "parse_statements">>, <<"parse_statements", "declaration">>,
     <<"declaration", "statement">>, <<"statement", "return_statement">>,
     <<"statement", "expression_statement">>, <<"return_statement", "expression">>,
     <<"expression_statement", "expression">>, <<"expression", "assignment">>,
     <<"assignment", "or">>, <<"unary", "right">>, <<"unary", "call">>,
     <<"call", "primary">>, <<"call", "finish_call">>,
     <<"finish_call", "argument">>}
        \cup {<<fn, at>> :
                fn \in {"or", "and", "equality", "comparison", "addition",
                        "multiplication"},
                at \in {"left", "right"}}

\* parse() is running and its next step is defined: an error on its way
\* up, a production at its start, or a production taking back a result.
Continues ==
    pc = "parse" =>
        /\ stack # <<>>
        /\ \/ ret.state = "err"
           \/ ret.state = "none" /\ Top.at = "start" /\ Top.fn \in Productions
           \/ ret.state = "ok" /\ <<Top.fn, Top.at>> \in ResumePoints

\* The deepest the stack gets: the productions from parse down to primary,
\* once more for every token that opens an operand or an argument.
Depth == 16 * (Len(tokens) + 1)

\* Where a step stands among the steps taken at one cursor: results go
\* down the stack, then productions are called, then parse_statements
\* returns or an error goes down the stack.
Rank ==
    IF ret.state = "err" THEN Len(stack)
    ELSE IF ret.state = "ok" /\ Len(stack) = 1 THEN Depth + 1
    ELSE IF ret.state = "none" THEN 3 * Depth - Len(stack)
    ELSE 3 * Depth + Len(stack)

\* The measure: the steps of the driver left, and while parse() runs the
\* tokens left, then the rank.
Variant ==
    IF pc = "parse" THEN 3 + (Len(tokens) - current) * (4 * Depth + 1) + Rank
    ELSE IF pc = "returned" THEN 2
    ELSE IF pc = "handle_errors" THEN 1
    ELSE 0

C11_Progress ==
    /\ Resuming("parse_statements", "declaration") => current > starts[Len(starts)]
    /\ (JustCalled /\ IteratesAgain(stack[Len(stack) - 1])) => current = before + 1
    /\ \A k \in 1..Len(starts) : starts[k] < EofIndex
    /\ (Returned /\ ~raised.some) => result.ok /\ current = EofIndex
    /\ (Returned /\ EofIndex = 0) => result = [ok |-> TRUE, val |-> Program(<<>>)]
    /\ Continues
    /\ Len(stack) <= Depth
    /\ Variant \in Nat
    /\ Variant = 0 <=> pc = "done"

C11_Termination == []C11_Progress /\ [][Variant' < Variant]_vars

\* A stream without EndOfFile has been parsed to three statements or more,
\* the cursor past the stream, and the driver has finished.
C11_Witness ==
    /\ pc = "done"
    /\ result.ok
    /\ current = Len(tokens)
    /\ Len(statements) >= 3
    /\ Variant = 0

----------------------------------------------------------------------------
(* C12: no panic path.  previous() is only evaluated with the cursor at 1  *)
(* or later, so `current - 1` never underflows; advance() is only called   *)
(* with input left and moves the cursor by one; an operand of unary        *)
(* returns to a frame whose operator is Minus or Not, and the errors       *)
(* "bbbb" and "fff" are never raised.  Every error raised is the error     *)
(* parse() returns, and the driver goes on to handle it.                   *)

\* The errors of the branches of unary that cannot be taken.
Unreachable == {StringError("bbbb"), StringError("fff")}

C12_NoPanicPath ==
    /\ \A i \in 1..Len(trace) :
           LET e == trace[i]
           IN  /\ e.op = "previous" => e.ok /\ e.from >= 1
               /\ e.op = "advance" =>
                      e.ok /\ e.from < EofIndex /\ e.to = e.from + 1
    /\ Resuming("unary", "right") =>
           /\ Top.operator.some
           /\ Top.operator.v.token_type.kind \in {"Minus", "Not"}
    /\ ret.state = "err" => ret.err \notin Unreachable
    /\ raised.some =>
           /\ raised.v.err \notin Unreachable
           /\ pc = "parse" => ret = ReturnErr(raised.v.err)
           /\ pc # "parse" =>
                  result = [ok |-> FALSE,
                            err |-> FromBoxedError("ParserErrors", raised.v.err)]
           /\ pc = "handle_errors" => reportable = result.err
    /\ pc = "returned" => (result.ok <=> ~raised.some)

\* unary has just matched a Not at cursor 0, the first token of the
\* stream: advance moved the cursor to 1 and previous read the operator
\* there, the lowest cursor at which it is evaluated.
C12_Witness ==
    /\ JustCalled
    /\ Top.fn = "unary"
    /\ stack[Len(stack) - 1].fn = "unary"
    /\ stack[Len(stack) - 1].at = "right"
    /\ stack[Len(stack) - 1].operator = Some(tokens[1])
    /\ tokens[1].token_type.kind = "Not"
    /\ current = 1
    /\ \E i \in 1..Len(trace) :
           trace[i].op = "advance" /\ trace[i].from = 0 /\ trace[i].ok
    /\ \E i \in 1..Len(trace) :
           trace[i].op = "previous" /\ trace[i].from = 1 /\ trace[i].ok

====
